---- MODULE Spec2Model ----
(***************************************************************************)
(* State-machine model of the SRW driver of lucarebuffi/optics:            *)
(*   examples/SRW/SRW_driver.py  (impl = "examples")                       *)
(*   Driver/SRW/SRWDriver.py     (impl = "Driver")                         *)
(* calculateRadiation is modelled statement group by statement group with  *)
(* a program counter; calculateIntensity / calculatePhase are one action   *)
(* each.  The srwl.* engine calls are an opaque oracle: they are recorded  *)
(* in `calls` and their effect on the wavefront is chosen from small sets. *)
(*                                                                         *)
(* Units.  Longitudinal positions and lengths are integers (metres).       *)
(* Angles of the bending-magnet branch are in units of 2 mrad, so that     *)
(* 0.5 * angle * z is angle * z in millimetres.  The undulator divergence  *)
(* is an integer d; max_theta = 2.5 * d is kept as 25 * d (tenths), and a  *)
(* quadratic grid length g stands for g / (10 * sqrt(2)).  Photon energies *)
(* are in micro-eV; the resonance energy is given in tenths of an eV.      *)
(***************************************************************************)
EXTENDS Integers, Sequences, FiniteSets, TLC

\* ------------------------------------------------------------- bounds
MaxLen == 3
MaxPos == 3
MaxExtract == 2
MaxUndLen == 2
MaxDiv == 2

\* ------------------------------------------------- program constants
GridSize == 1000
MaxThetaFactorX10 == 25
HorizontalAngle == 50
VerticalAngle == 10
BendingMagnetEnergy == 61992
MicroPerUnit == 1000000

\* --------------------------------------------------------- input sets
DriverIds == {"self", "other"}
Impls == {"examples", "Driver"}
SourceKinds == {"Undulator", "BendingMagnet", "Wiggler"}
ComponentKinds == {"LensIdeal", "ImagePlane", "Mirror"}
\* resonance energies in tenths of an eV: 7.9 eV and 8.5 eV
ResonanceSet == {79, 85}
\* mesh rescaling the propagation engine may apply
ResizeSet == {1, 2}

\* ------------------------------------------------------ settings bags
NoSettings == [cls |-> "none", a |-> 0, b |-> 0]
DefaultSettings(cls) == [cls |-> cls, a |-> 1, b |-> 1]
CustomSettings(cls, a, b) == [cls |-> cls, a |-> a, b |-> b]
toList(s) == <<s.a, s.b>>
EmptyBag == [d \in DriverIds |-> NoSettings]
Bag(mine, theirs) == [d \in DriverIds |-> IF d = "self" THEN mine ELSE theirs]

hasSettings(obj, driver) == obj.bag[driver].cls # "none"
settings(obj, driver) == obj.bag[driver]

\* "if x.hasSettings(self): s = x.settings(self) else: s = Default()"
\* faulty variant: falls back on a payload attached for any driver
ResolveSettings_anyDriver(obj, driver, default_cls) ==
    IF hasSettings(obj, driver) THEN settings(obj, driver)
    ELSE IF \E d \in DriverIds : hasSettings(obj, d)
         THEN settings(obj, CHOOSE d \in DriverIds : hasSettings(obj, d))
         ELSE DefaultSettings(default_cls)
ResolveSettings(obj, driver, default_cls) ==
    IF hasSettings(obj, driver) THEN settings(obj, driver)
    ELSE DefaultSettings(default_cls)

ComponentSettingCls == "SRWBeamlineComponentSetting"
UndulatorSettingCls(i) == IF i = "examples" THEN "SRWUndulatorSetting" ELSE "SRWSourceSetting"
BendingMagnetSettingCls == "SRWBendingMagnetSetting"

\* ------------------------------------------------------- wavefronts
ZeroMesh == [zStart |-> 0, eStart |-> 0, eFin |-> 0, xStart |-> 0, xFin |-> 0,
             yStart |-> 0, yFin |-> 0, nx |-> 0, ny |-> 0]
NoWavefront == [mesh |-> ZeroMesh, field |-> "none"]

\* int(x) of a non-negative energy given in tenths of an eV, result in micro-eV
IntEnergy(tenths) == (tenths \div 10) * MicroPerUnit

createQuadraticSRWWavefrontSingleEnergy(grid_size, grid_length, z_start, energy) ==
    [mesh |-> [zStart |-> z_start, eStart |-> energy, eFin |-> energy,
               xStart |-> -grid_length, xFin |-> grid_length,
               yStart |-> -grid_length, yFin |-> grid_length,
               nx |-> grid_size, ny |-> grid_size],
     field |-> "allocated"]

createRectangularSRWWavefrontSingleEnergy(grid_size, grid_length_vertical, grid_length_horizontal, z_start, energy) ==
    [mesh |-> [zStart |-> z_start, eStart |-> energy, eFin |-> energy,
               xStart |-> -grid_length_horizontal, xFin |-> grid_length_horizontal,
               yStart |-> -grid_length_vertical, yFin |-> grid_length_vertical,
               nx |-> grid_size, ny |-> grid_size],
     field |-> "allocated"]

\* the engine: fills the field of the wavefront it is handed
CalcElecFieldSR(wfr) == [wfr EXCEPT !.field = "source"]
\* the engine: propagates in place; r is the rescaling it applies to the mesh
PropagElecField(wfr, r) ==
    [wfr EXCEPT !.field = "propagated",
                !.mesh.xStart = r * @, !.mesh.xFin = r * @,
                !.mesh.yStart = r * @, !.mesh.yFin = r * @]

\* ------------------------------------------------- magnetic fields
\* SRWLMagFldH(1, h_or_v, B, 0, s, 1): one harmonic of the undulator field
SRWLMagFldH(h_or_v, B, s) == [n |-> 1, h_or_v |-> h_or_v, B |-> B, ph |-> 0, s |-> s, a |-> 1]
\* undulator.B_vertical() / B_horizontal(): the field of a deflection parameter, in the
\* unit in which B = K
B_vertical(undulator) == undulator.K_vertical
B_horizontal(undulator) == undulator.K_horizontal
NoMagFld == [arMagFld |-> <<>>]
SRWLMagFldC(structures) == [arMagFld |-> structures]

\* faulty variant: a deflection parameter equal to zero contributes a term too
SRWUndulator_orZero(undulator) ==
    [type |-> "U",
     arHarm |-> (IF undulator.K_vertical >= 0
                 THEN <<SRWLMagFldH("v", B_vertical(undulator), 1)>> ELSE <<>>)
                \o (IF undulator.K_horizontal >= 0
                    THEN <<SRWLMagFldH("h", B_horizontal(undulator), -1)>> ELSE <<>>)]
\* _SRWUndulator: the vertical harmonic, then the horizontal one, each only for K > 0
SRWUndulator(undulator) ==
    [type |-> "U",
     arHarm |-> (IF undulator.K_vertical > 0
                 THEN <<SRWLMagFldH("v", B_vertical(undulator), 1)>> ELSE <<>>)
                \o (IF undulator.K_horizontal > 0
                    THEN <<SRWLMagFldH("h", B_horizontal(undulator), -1)>> ELSE <<>>)]
\* _magnetFieldFromUndulator
magnetFieldFromUndulator(undulator) == SRWLMagFldC(<<SRWUndulator(undulator)>>)
\* SRWAdapter.magnetFieldFromBendingMagnet: one multipole, no harmonics
magnetFieldFromBendingMagnet(bending_magnet) == SRWLMagFldC(<<[type |-> "M", arHarm |-> <<>>]>>)

\* ------------------------------------------------- optical elements
SRWLOptD(length) == [type |-> "D", L |-> length, Fx |-> 0, Fy |-> 0]
SRWLOptL(fx, fy) == [type |-> "L", L |-> 0, Fx |-> fx, Fy |-> fy]
NoBeamline == [arOpt |-> <<>>, arProp |-> <<>>, built |-> FALSE]
SRWLOptC(elements, preferences) == [arOpt |-> elements, arProp |-> preferences, built |-> TRUE]

\* --------------------------------------------------- domain objects
Lens(z, bag) == [kind |-> "LensIdeal", z |-> z, focal_x |-> 2, focal_y |-> 3, bag |-> bag]
Other(kind, z, bag) == [kind |-> kind, z |-> z, focal_x |-> 0, focal_y |-> 0, bag |-> bag]
Undulator(len, div, res, kv, kh, bag) ==
    [kind |-> "Undulator", length |-> len, divergence |-> div, resonance |-> res,
     K_vertical |-> kv, K_horizontal |-> kh, bag |-> bag]
BendingMagnet(bag) ==
    [kind |-> "BendingMagnet", length |-> 4, divergence |-> 0, resonance |-> 0,
     K_vertical |-> 0, K_horizontal |-> 0, bag |-> bag]
Wiggler ==
    [kind |-> "Wiggler", length |-> 0, divergence |-> 0, resonance |-> 0,
     K_vertical |-> 0, K_horizontal |-> 0, bag |-> EmptyBag]
\* deflection parameters: negative, zero, positive
DeflectionSet == {-1, 0, 1}

Positions == 1..MaxPos
MineComponent == {NoSettings, CustomSettings(ComponentSettingCls, 2, 2)}
TheirsComponent == {NoSettings, CustomSettings(ComponentSettingCls, 3, 3)}
AngleSet == {<<50, 10>>, <<100, 10>>, <<50, 20>>}

\* beamlines of the traversal specification: any kinds, any order of positions
ComponentsRich ==
    {Lens(z, Bag(m, NoSettings)) : z \in Positions, m \in MineComponent}
    \cup {Other(k, z, EmptyBag) : k \in ComponentKinds \ {"LensIdeal"}, z \in Positions}
BeamlinesRich == UNION {[1..n -> ComponentsRich] : n \in 0..MaxLen}
SourcesSmall ==
    {Undulator(1, 1, 79, 1, 0, EmptyBag),
     BendingMagnet(Bag(CustomSettings(BendingMagnetSettingCls, 50, 10), NoSettings)),
     Wiggler}

\* sources of the source specification: every parameter and every bag varies
ComponentsSmall ==
    {Lens(z, Bag(m, t)) : z \in Positions, m \in MineComponent, t \in TheirsComponent}
    \cup {Other("ImagePlane", z, EmptyBag) : z \in Positions}
BeamlinesSmall == UNION {[1..n -> ComponentsSmall] : n \in 0..1}
SourcesRich ==
    {Undulator(l, d, r, kv, kh, Bag(m, t)) :
        l \in 1..MaxUndLen, d \in 1..MaxDiv, r \in ResonanceSet,
        kv \in DeflectionSet, kh \in DeflectionSet,
        m \in {NoSettings, CustomSettings("SRWUndulatorSetting", 2, 2)},
        t \in {NoSettings, CustomSettings("SRWUndulatorSetting", 3, 3)}}
    \cup {BendingMagnet(Bag(m, t)) :
        m \in {NoSettings} \cup {CustomSettings(BendingMagnetSettingCls, an[1], an[2]) : an \in AngleSet},
        t \in {NoSettings, CustomSettings(BendingMagnetSettingCls, 75, 15)}}
    \cup {Wiggler}

\* Beamline.componentByIndex / positionOf / iteration
componentByIndex(bl, i) == bl[i + 1]
positionOf(component) == component.z

VARIABLES
    impl,                      \* which driver file runs
    radiation_source, beamline,
    pc,                        \* "call", "source", "traverse", "returned", "raised"
    position_first_component,
    wavefront,
    source_params,             \* parameter list handed to CalcElecFieldSR
    magFldCnt,                 \* magnetic field container handed to CalcElecFieldSR
    srw_optical_element, srw_preferences,
    el_owner, pref_owner,      \* history: component index of each entry, 0 for a drift
    current_z_position,
    idx,                       \* components already traversed
    srw_beamline,              \* SRWLOptC handed to PropagElecField
    calls,                     \* engine calls made, in order
    raised,                    \* exception that left calculateRadiation
    returned,                  \* history: the wavefront as calculateRadiation returned it
    propagated_from,           \* history: the wavefront as it was handed to PropagElecField
    result,                    \* last value returned by calculateIntensity / calculatePhase
    nExtract

vars == <<impl, radiation_source, beamline, pc, position_first_component, wavefront,
          source_params, srw_optical_element, srw_preferences, el_owner, pref_owner,
          current_z_position, idx, srw_beamline, calls, raised, returned, result, nExtract,
          propagated_from, magFldCnt>>

NotRaised == [exc |-> "none", at |-> "none"]
NoResult == [kind |-> "none", typecode |-> "none", len |-> 0,
             plot_mesh_x |-> <<0, 0, 0>>, plot_mesh_y |-> <<0, 0, 0>>]

InitLocals ==
    /\ pc = "call"
    /\ position_first_component = 0
    /\ wavefront = NoWavefront
    /\ source_params = <<>>
    /\ magFldCnt = NoMagFld
    /\ srw_optical_element = <<>>
    /\ srw_preferences = <<>>
    /\ el_owner = <<>>
    /\ pref_owner = <<>>
    /\ current_z_position = 0
    /\ idx = 0
    /\ srw_beamline = NoBeamline
    /\ calls = <<>>
    /\ raised = NotRaised
    /\ returned = NoWavefront
    /\ propagated_from = NoWavefront
    /\ result = NoResult
    /\ nExtract = 0

Init ==
    /\ impl \in Impls
    /\ radiation_source \in SourcesSmall
    /\ beamline \in BeamlinesRich
    /\ InitLocals

InitSource ==
    /\ impl \in Impls
    /\ radiation_source \in SourcesRich
    /\ beamline \in BeamlinesSmall
    /\ InitLocals

\* ===================================================== calculateRadiation
\* first_component = beamline.componentByIndex(0); position_first_component = positionOf(..)
\* faulty variant: an empty beamline is given position 0 instead of failing
LocateFirstComponent_defaultZero ==
    /\ pc = "call"
    /\ position_first_component' =
          IF Len(beamline) = 0 THEN 0 ELSE positionOf(componentByIndex(beamline, 0))
    /\ pc' = "source"
    /\ UNCHANGED <<magFldCnt, propagated_from, impl, radiation_source, beamline, wavefront, source_params,
                   srw_optical_element, srw_preferences, el_owner, pref_owner,
                   current_z_position, idx, srw_beamline, calls, raised, returned,
                   result, nExtract>>
LocateFirstComponent ==
    /\ pc = "call"
    /\ IF Len(beamline) = 0
       THEN /\ raised' = [exc |-> "InvalidBeamlineError", at |-> "componentByIndex"]
            /\ pc' = "raised"
            /\ UNCHANGED position_first_component
       ELSE /\ position_first_component' = positionOf(componentByIndex(beamline, 0))
            /\ pc' = "source"
            /\ UNCHANGED raised
    /\ UNCHANGED <<magFldCnt, propagated_from, impl, radiation_source, beamline, wavefront, source_params,
                   srw_optical_element, srw_preferences, el_owner, pref_owner,
                   current_z_position, idx, srw_beamline, calls, returned,
                   result, nExtract>>

\* the isinstance chain of each driver file
Recognised(i) == IF i = "examples" THEN {"Undulator", "BendingMagnet"} ELSE {"Undulator"}

\* max_theta = undulator.gaussianCentralConeDivergence(gamma) * 2.5   (in tenths)
UndulatorMaxTheta(undulator) == MaxThetaFactorX10 * undulator.divergence
\* z_start = undulator.length() + position_first_component.z()
\* faulty variant: the undulator length is left out
UndulatorZStart_noLength(undulator, z0) == z0
UndulatorZStart(undulator, z0) == undulator.length + z0
\* grid_length = max_theta * z_start / sqrt(2.0)   (in units of 1 / (10 sqrt 2))
UndulatorGridLength(max_theta, z_start) == max_theta * z_start

\* horizontal_grid_length = 0.5 * horizontal_angle * z_start, horizontal_angle = 0.1
HorizontalGridLength(bending_magnet, z_start) == HorizontalAngle * z_start
\* vertical_grid_length = 0.5 * vertical_angle * z_start, vertical_angle = 0.02
VerticalGridLength(bending_magnet, z_start) == VerticalAngle * z_start

\* srw_optical_element = list(); srw_preferences = list(); current_z_position = z of first
StartTraversal ==
    /\ srw_optical_element' = <<>>
    /\ srw_preferences' = <<>>
    /\ el_owner' = <<>>
    /\ pref_owner' = <<>>
    /\ current_z_position' = position_first_component
    /\ idx' = 0

SourceUndulator ==
    /\ pc = "source"
    /\ radiation_source.kind = "Undulator"
    /\ LET undulator == radiation_source
           max_theta == UndulatorMaxTheta(undulator)
           z_start == UndulatorZStart(undulator, position_first_component)
           grid_length == UndulatorGridLength(max_theta, z_start)
           wfr == createQuadraticSRWWavefrontSingleEnergy(
                      GridSize, grid_length, z_start, IntEnergy(undulator.resonance))
           undulator_settings == ResolveSettings(undulator, "self", UndulatorSettingCls(impl))
       IN /\ magFldCnt' = magnetFieldFromUndulator(undulator)
          /\ wavefront' = CalcElecFieldSR(wfr)
          /\ source_params' = toList(undulator_settings)
          /\ calls' = Append(calls, "CalcElecFieldSR")
    /\ StartTraversal
    /\ pc' = "traverse"
    /\ UNCHANGED <<propagated_from, impl, radiation_source, beamline, position_first_component,
                   srw_beamline, raised, returned, result, nExtract>>

SourceBendingMagnet ==
    /\ pc = "source"
    /\ impl = "examples"
    /\ radiation_source.kind = "BendingMagnet"
    /\ LET bending_magnet == radiation_source
           z_start == position_first_component
           wfr == createRectangularSRWWavefrontSingleEnergy(
                      GridSize, VerticalGridLength(bending_magnet, z_start),
                      HorizontalGridLength(bending_magnet, z_start), z_start,
                      BendingMagnetEnergy)
           bending_magnet_settings == ResolveSettings(bending_magnet, "self", BendingMagnetSettingCls)
       IN /\ magFldCnt' = magnetFieldFromBendingMagnet(bending_magnet)
          /\ wavefront' = CalcElecFieldSR(wfr)
          /\ source_params' = toList(bending_magnet_settings)
          /\ calls' = Append(calls, "CalcElecFieldSR")
    /\ StartTraversal
    /\ pc' = "traverse"
    /\ UNCHANGED <<propagated_from, impl, radiation_source, beamline, position_first_component,
                   srw_beamline, raised, returned, result, nExtract>>

\* else: raise NotImplementedError
\* faulty variant: no else branch, the dispatch falls through
SourceNotImplemented_fallThrough ==
    /\ pc = "source"
    /\ radiation_source.kind \notin Recognised(impl)
    /\ StartTraversal
    /\ pc' = "traverse"
    /\ UNCHANGED <<magFldCnt, propagated_from, impl, radiation_source, beamline, position_first_component, wavefront,
                   source_params, srw_beamline, calls, raised, returned, result, nExtract>>
SourceNotImplemented ==
    /\ pc = "source"
    /\ radiation_source.kind \notin Recognised(impl)
    /\ raised' = [exc |-> "NotImplementedError", at |-> "source_dispatch"]
    /\ pc' = "raised"
    /\ UNCHANGED <<magFldCnt, propagated_from, impl, radiation_source, beamline, position_first_component, wavefront,
                   source_params, srw_optical_element, srw_preferences, el_owner, pref_owner,
                   current_z_position, idx, srw_beamline, calls, returned, result, nExtract>>

\* ------------------------------------------------- beamline traversal
\* if position.z() > current_z_position: srw_optical_element.append(SRWLOptD(distance))
\* faulty variant: a drift is inserted for equal positions too
DriftElements_orEqual(elements, z, current) ==
    IF z >= current THEN Append(elements, SRWLOptD(z - current)) ELSE elements
DriftElements(elements, z, current) ==
    IF z > current THEN Append(elements, SRWLOptD(z - current)) ELSE elements
\* ... srw_preferences.append(SRWBeamlineComponentSetting().toList())
\* faulty variant: no settings entry is appended for a drift
DriftPreferences_forgotten(preferences, z, current) == preferences
DriftPreferences(preferences, z, current) ==
    IF z > current
    THEN Append(preferences, toList(DefaultSettings(ComponentSettingCls)))
    ELSE preferences
\* ... current_z_position = position.z()
\* faulty variant: the current position follows every component, also backwards
DriftPosition_always(z, current) == z
DriftPosition(z, current) == IF z > current THEN z ELSE current
DriftOwner(owners, z, current) == IF z > current THEN Append(owners, 0) ELSE owners

\* one iteration of "for component in beamline"
\* faulty variant: an unsupported component is skipped silently
TraverseComponent_skipUnsupported ==
    /\ pc = "traverse"
    /\ idx < Len(beamline)
    /\ LET component == beamline[idx + 1]
           z == positionOf(component)
           elements == DriftElements(srw_optical_element, z, current_z_position)
           preferences == DriftPreferences(srw_preferences, z, current_z_position)
           component_settings == ResolveSettings(component, "self", ComponentSettingCls)
       IN /\ current_z_position' = DriftPosition(z, current_z_position)
          /\ IF component.kind = "LensIdeal"
             THEN /\ srw_optical_element' =
                        Append(elements, SRWLOptL(component.focal_x, component.focal_y))
                  /\ srw_preferences' = Append(preferences, toList(component_settings))
                  /\ el_owner' = Append(DriftOwner(el_owner, z, current_z_position), idx + 1)
                  /\ pref_owner' = Append(DriftOwner(pref_owner, z, current_z_position), idx + 1)
             ELSE /\ srw_optical_element' = elements
                  /\ srw_preferences' = preferences
                  /\ el_owner' = DriftOwner(el_owner, z, current_z_position)
                  /\ pref_owner' = DriftOwner(pref_owner, z, current_z_position)
          /\ idx' = idx + 1
          /\ UNCHANGED <<pc, raised>>
    /\ UNCHANGED <<magFldCnt, propagated_from, impl, radiation_source, beamline, position_first_component, wavefront,
                   source_params, srw_beamline, calls, returned, result, nExtract>>
TraverseComponent ==
    /\ pc = "traverse"
    /\ idx < Len(beamline)
    /\ LET component == beamline[idx + 1]
           z == positionOf(component)
           elements == DriftElements(srw_optical_element, z, current_z_position)
           preferences == DriftPreferences(srw_preferences, z, current_z_position)
           component_settings == ResolveSettings(component, "self", ComponentSettingCls)
       IN /\ current_z_position' = DriftPosition(z, current_z_position)
          /\ IF component.kind = "LensIdeal"
             THEN /\ srw_optical_element' =
                        Append(elements, SRWLOptL(component.focal_x, component.focal_y))
                  /\ srw_preferences' = Append(preferences, toList(component_settings))
                  /\ el_owner' = Append(DriftOwner(el_owner, z, current_z_position), idx + 1)
                  /\ pref_owner' = Append(DriftOwner(pref_owner, z, current_z_position), idx + 1)
                  /\ idx' = idx + 1
                  /\ UNCHANGED <<pc, raised>>
             ELSE /\ srw_optical_element' = elements
                  /\ srw_preferences' = preferences
                  /\ el_owner' = DriftOwner(el_owner, z, current_z_position)
                  /\ pref_owner' = DriftOwner(pref_owner, z, current_z_position)
                  /\ raised' = [exc |-> "NotImplementedError", at |-> "component_dispatch"]
                  /\ pc' = "raised"
                  /\ UNCHANGED idx
    /\ UNCHANGED <<magFldCnt, propagated_from, impl, radiation_source, beamline, position_first_component, wavefront,
                   source_params, srw_beamline, calls, returned, result, nExtract>>

\* srw_beamline = SRWLOptC(..); srwl.PropagElecField(wavefront, srw_beamline); return wavefront
\* faulty variant: the loop ends one component early
Propagate_early ==
    /\ pc = "traverse"
    /\ idx >= Len(beamline) - 1
    /\ srw_beamline' = SRWLOptC(srw_optical_element, srw_preferences)
    /\ propagated_from' = wavefront
    /\ \E r \in ResizeSet : wavefront' = PropagElecField(wavefront, r)
    /\ calls' = Append(calls, "PropagElecField")
    /\ returned' = wavefront'
    /\ pc' = "returned"
    /\ UNCHANGED <<magFldCnt, impl, radiation_source, beamline, position_first_component,
                   source_params, srw_optical_element, srw_preferences, el_owner, pref_owner,
                   current_z_position, idx, raised, result, nExtract>>
Propagate ==
    /\ pc = "traverse"
    /\ idx = Len(beamline)
    /\ srw_beamline' = SRWLOptC(srw_optical_element, srw_preferences)
    /\ propagated_from' = wavefront
    /\ \E r \in ResizeSet : wavefront' = PropagElecField(wavefront, r)
    /\ calls' = Append(calls, "PropagElecField")
    /\ returned' = wavefront'
    /\ pc' = "returned"
    /\ UNCHANGED <<magFldCnt, impl, radiation_source, beamline, position_first_component,
                   source_params, srw_optical_element, srw_preferences, el_owner, pref_owner,
                   current_z_position, idx, raised, result, nExtract>>

\* ============================== calculateIntensity / calculatePhase
deepcopy(mesh) == mesh
PlotMesh(start, fin, n) == <<MicroPerUnit * start, MicroPerUnit * fin, n>>

\* faulty variant: the mesh is not copied and is flattened in place
CalculateIntensity_inPlace ==
    /\ pc = "returned"
    /\ nExtract < MaxExtract
    /\ LET mesh == wavefront.mesh
       IN /\ result' = [kind |-> "intensity", typecode |-> "f", len |-> mesh.nx * mesh.ny,
                        plot_mesh_x |-> PlotMesh(mesh.xStart, mesh.xFin, mesh.nx),
                        plot_mesh_y |-> PlotMesh(mesh.yStart, mesh.yFin, mesh.ny)]
          /\ wavefront' = [wavefront EXCEPT !.mesh.nx = mesh.nx * mesh.ny, !.mesh.ny = 1]
    /\ calls' = Append(calls, "CalcIntFromElecField")
    /\ nExtract' = nExtract + 1
    /\ UNCHANGED <<magFldCnt, propagated_from, impl, radiation_source, beamline, pc, position_first_component,
                   source_params, srw_optical_element, srw_preferences, el_owner, pref_owner,
                   current_z_position, idx, srw_beamline, raised, returned>>
CalculateIntensity ==
    /\ pc = "returned"
    /\ nExtract < MaxExtract
    /\ LET mesh == deepcopy(wavefront.mesh)
       IN result' = [kind |-> "intensity", typecode |-> "f", len |-> mesh.nx * mesh.ny,
                     plot_mesh_x |-> PlotMesh(mesh.xStart, mesh.xFin, mesh.nx),
                     plot_mesh_y |-> PlotMesh(mesh.yStart, mesh.yFin, mesh.ny)]
    /\ calls' = Append(calls, "CalcIntFromElecField")
    /\ nExtract' = nExtract + 1
    /\ UNCHANGED <<magFldCnt, propagated_from, impl, radiation_source, beamline, pc, position_first_component, wavefront,
                   source_params, srw_optical_element, srw_preferences, el_owner, pref_owner,
                   current_z_position, idx, srw_beamline, raised, returned>>

CalculatePhase ==
    /\ pc = "returned"
    /\ nExtract < MaxExtract
    /\ LET mesh == deepcopy(wavefront.mesh)
       IN result' = [kind |-> "phase", typecode |-> "d", len |-> mesh.nx * mesh.ny,
                     plot_mesh_x |-> PlotMesh(mesh.xStart, mesh.xFin, mesh.nx),
                     plot_mesh_y |-> PlotMesh(mesh.yStart, mesh.yFin, mesh.ny)]
    /\ calls' = Append(calls, "CalcIntFromElecField")
    /\ nExtract' = nExtract + 1
    /\ UNCHANGED <<magFldCnt, propagated_from, impl, radiation_source, beamline, pc, position_first_component, wavefront,
                   source_params, srw_optical_element, srw_preferences, el_owner, pref_owner,
                   current_z_position, idx, srw_beamline, raised, returned>>

Next ==
    \/ LocateFirstComponent
    \/ SourceUndulator
    \/ SourceBendingMagnet
    \/ SourceNotImplemented
    \/ TraverseComponent
    \/ Propagate
    \/ CalculateIntensity
    \/ CalculatePhase

Spec == Init /\ [][Next]_vars
SpecSource == InitSource /\ [][Next]_vars

\* =================================================================
\* Properties
\* =================================================================
Sorted(bl, n) == \A i \in 1..(n - 1) : bl[i].z <= bl[i + 1].z
Gap(bl, n) == IF n > 1 THEN bl[n].z - bl[n - 1].z ELSE 0
WithGap(elements, bl, n) ==
    IF Gap(bl, n) > 0 THEN Append(elements, SRWLOptD(Gap(bl, n))) ELSE elements
RECURSIVE ExpectedElements(_, _)
ExpectedElements(bl, n) ==
    IF n = 0 THEN <<>>
    ELSE Append(WithGap(ExpectedElements(bl, n - 1), bl, n),
                SRWLOptL(bl[n].focal_x, bl[n].focal_y))
Drifts(elements) == {i \in 1..Len(elements) : elements[i].type = "D"}
Range(f) == {f[i] : i \in 1..Len(f)}

\* C1: with components at non-decreasing positions, the optical sequence built by the
\* traversal holds, for every traversed pair of consecutive components, one drift of
\* length p_{i+1} - p_i immediately before the element of component i+1 when
\* p_{i+1} > p_i, and no drift when the positions are equal (nor before the first).
C1_DriftPerGap ==
    /\ (pc \in {"traverse", "returned"} /\ Sorted(beamline, idx))
          => srw_optical_element = ExpectedElements(beamline, idx)
    /\ (raised.at = "component_dispatch" /\ Sorted(beamline, idx + 1))
          => srw_optical_element = WithGap(ExpectedElements(beamline, idx), beamline, idx + 1)
C1_Witness ==
    /\ pc = "returned"
    /\ Len(beamline) = 3
    /\ beamline[1].z = beamline[2].z
    /\ beamline[2].z < beamline[3].z
    /\ Len(srw_optical_element) = 4
    /\ srw_optical_element[3] = SRWLOptD(beamline[3].z - beamline[2].z)

ExpectedList(obj) ==
    IF obj.bag["self"].cls # "none"
    THEN <<obj.bag["self"].a, obj.bag["self"].b>>
    ELSE <<1, 1>>

\* C2: the optical-element sequence and the settings sequence have equal length, entry i
\* of the settings belongs to element i (a drift is paired with the default entry, a lens
\* with the settings resolved for its component), and the two are handed as they are to
\* the propagation call.
C2_IndexAligned ==
    /\ Len(srw_optical_element) = Len(srw_preferences)
    /\ Len(el_owner) = Len(srw_optical_element)
    /\ el_owner = pref_owner
    /\ \A i \in 1..Len(srw_optical_element) :
          IF srw_optical_element[i].type = "D"
          THEN el_owner[i] = 0 /\ srw_preferences[i] = <<1, 1>>
          ELSE /\ el_owner[i] \in 1..Len(beamline)
               /\ srw_preferences[i] = ExpectedList(beamline[el_owner[i]])
    /\ srw_beamline.built =>
          /\ srw_beamline.arOpt = srw_optical_element
          /\ srw_beamline.arProp = srw_preferences
          /\ Len(srw_beamline.arOpt) = Len(srw_beamline.arProp)
C2_Witness ==
    /\ srw_beamline.built
    /\ Len(srw_beamline.arOpt) = 3
    /\ srw_beamline.arOpt[2].type = "D"
    /\ srw_beamline.arProp = << <<1, 1>>, <<1, 1>>, <<2, 2>> >>

\* C3: an ImagePlane reached by the traversal raises no error; in particular a beamline
\* of one ideal lens followed by an image plane further down is translated to
\* completion (lens, then the drift to the plane) and a field is returned.
C3_ImagePlaneAccepted ==
    /\ \A i \in 1..Len(beamline) :
          beamline[i].kind = "ImagePlane"
              => ~(raised.at = "component_dispatch" /\ idx = i - 1)
    /\ ( /\ Len(beamline) = 2
         /\ beamline[1].kind = "LensIdeal"
         /\ beamline[2].kind = "ImagePlane"
         /\ beamline[1].z < beamline[2].z
         /\ impl = "examples"
         /\ radiation_source.kind = "BendingMagnet"
         /\ pc \in {"raised", "returned"} )
          => /\ pc = "returned"
             /\ srw_beamline.arOpt = <<SRWLOptL(beamline[1].focal_x, beamline[1].focal_y),
                                       SRWLOptD(beamline[2].z - beamline[1].z)>>

C4_Resolved ==
    /\ Len(calls) > 0 => source_params = ExpectedList(radiation_source)
    /\ \A i \in 1..Len(srw_preferences) :
          pref_owner[i] > 0 => srw_preferences[i] = ExpectedList(beamline[pref_owner[i]])
\* C4: the settings the driver uses for the source and for every component are resolved
\* by the identity of the calling driver: the parameter list of the payload attached for
\* this driver if there is one, the default list otherwise; a payload attached for another
\* driver changes nothing, and no step changes the source or the beamline.
C4_SettingsByDriverIdentity ==
    /\ []C4_Resolved
    /\ [][radiation_source' = radiation_source /\ beamline' = beamline]_vars
C4_Witness ==
    /\ pc = "returned"
    /\ radiation_source.bag["self"].cls = "none"
    /\ radiation_source.bag["other"].cls # "none"
    /\ source_params = <<1, 1>>
    /\ Len(beamline) = 1
    /\ beamline[1].bag["self"] = CustomSettings(ComponentSettingCls, 2, 2)
    /\ beamline[1].bag["other"] = CustomSettings(ComponentSettingCls, 3, 3)
    /\ srw_preferences = << <<2, 2>> >>

\* the acceptance angles given for the magnet: those of its attached settings
AcceptanceAngles(bending_magnet) ==
    IF bending_magnet.bag["self"].cls # "none"
    THEN <<bending_magnet.bag["self"].a, bending_magnet.bag["self"].b>>
    ELSE <<50, 10>>

\* C5: for a BendingMagnet with acceptance angles (ha, va) the mesh built is centred on
\* axis with horizontal half-width 0.5 * ha * z0 and vertical half-width 0.5 * va * z0, at
\* sampling position z0, for every value of (ha, va).
C5_MeshFollowsAcceptance ==
    (radiation_source.kind = "BendingMagnet" /\ wavefront.field = "source")
        => /\ wavefront.mesh.xFin = AcceptanceAngles(radiation_source)[1] * position_first_component
           /\ wavefront.mesh.xStart = -wavefront.mesh.xFin
           /\ wavefront.mesh.yFin = AcceptanceAngles(radiation_source)[2] * position_first_component
           /\ wavefront.mesh.yStart = -wavefront.mesh.yFin
           /\ wavefront.mesh.zStart = position_first_component

\* C6: for an Undulator the mesh built is square and centred at zero with equal sample
\* counts, its sampling position is length + z0, its half-width is
\* 2.5 * divergence * (length + z0) / sqrt(2), and its start and end photon energy are
\* both the resonance energy truncated to an integer.
C6_UndulatorMesh ==
    (radiation_source.kind = "Undulator" /\ wavefront.field = "source")
        => LET m == wavefront.mesh
               z0 == beamline[1].z
           IN /\ m.xStart = -m.xFin /\ m.yStart = m.xStart /\ m.yFin = m.xFin
              /\ m.nx = m.ny /\ m.nx > 0
              /\ m.zStart = radiation_source.length + z0
              /\ m.xFin = 25 * radiation_source.divergence * (radiation_source.length + z0)
              /\ m.eStart = m.eFin
              /\ m.eStart % 1000000 = 0
              /\ m.eStart <= radiation_source.resonance * 100000
              /\ radiation_source.resonance * 100000 < m.eStart + 1000000
C6_Witness ==
    /\ radiation_source.kind = "Undulator"
    /\ wavefront.field = "source"
    /\ radiation_source.length = 2
    /\ radiation_source.divergence = 2
    /\ radiation_source.resonance = 85
    /\ wavefront.mesh.eStart = 8000000
    /\ wavefront.mesh.zStart = 3
    /\ wavefront.mesh.xFin = 150

Unsupported(bl) == {i \in 1..Len(bl) : bl[i].kind # "LensIdeal"}

\* C8: when the beamline holds a component of an unsupported variant, the traversal never
\* gets past it: reaching it raises, the propagation call is never made, and no optical
\* sequence and no field is handed back, whatever supported components precede it.
C8_UnsupportedFailsFast ==
    /\ Unsupported(beamline) # {}
          => /\ "PropagElecField" \notin Range(calls)
             /\ ~srw_beamline.built
             /\ returned = NoWavefront
             /\ pc # "returned"
             /\ \A i \in Unsupported(beamline) : idx < i
    /\ raised.at = "component_dispatch"
          => /\ raised.exc = "NotImplementedError"
             /\ pc = "raised"
             /\ idx + 1 \in Unsupported(beamline)
C8_Witness ==
    /\ raised.at = "component_dispatch"
    /\ idx = 2
    /\ beamline[3].kind = "Mirror"
    /\ Len(srw_optical_element) >= 2
    /\ calls = <<"CalcElecFieldSR">>

Decreasing(bl) == \E i \in 1..(Len(bl) - 1) : bl[i + 1].z < bl[i].z

\* C9 as stated: an empty beamline, or one whose positions decrease in traversal order,
\* makes calculateRadiation fail before any engine call is made.
C9_InvalidBeamlineRejected ==
    (Len(beamline) = 0 \/ Decreasing(beamline))
        => /\ calls = <<>>
           /\ pc # "returned"
\* C9 (amended): an empty beamline makes calculateRadiation fail before any engine call is
\* made; positions are never checked, so a beamline whose positions decrease is not
\* rejected: the only other errors are the not-implemented errors of the source and the
\* component dispatch, and with an Undulator and supported components a beamline with
\* decreasing positions runs through both engine calls and returns.
C9_OnlyEmptyRejected ==
    /\ (Len(beamline) = 0 /\ pc # "call")
          => /\ pc = "raised"
             /\ raised.at = "componentByIndex"
             /\ calls = <<>> /\ returned = NoWavefront /\ wavefront = NoWavefront
    /\ raised.at = "componentByIndex" => Len(beamline) = 0
    /\ pc = "raised" => raised.exc \in {"InvalidBeamlineError", "NotImplementedError"}
    /\ raised.exc = "NotImplementedError" =>
          \/ raised.at = "source_dispatch"
                /\ (radiation_source.kind = "Wiggler"
                       \/ (impl = "Driver" /\ radiation_source.kind = "BendingMagnet"))
          \/ raised.at = "component_dispatch" /\ Unsupported(beamline) # {}
    /\ ( /\ Decreasing(beamline)
         /\ Unsupported(beamline) = {}
         /\ radiation_source.kind = "Undulator"
         /\ pc \notin {"call", "source", "traverse"} )
          => pc = "returned" /\ Len(calls) >= 2
C9_Witness ==
    /\ Len(beamline) = 0
    /\ pc = "raised"
    /\ raised.at = "componentByIndex"
    /\ calls = <<>>

Lenses(owners) == SelectSeq(owners, LAMBDA k : k > 0)
Identity(n) == [i \in 1..n |-> i]

\* C11: in every run that returns, the source-field calculation was called exactly once
\* and first, the whole beamline was traversed while no other engine call was made, and
\* the propagation was called exactly once, on the wavefront the source calculation had
\* filled and with the complete optical sequence: the translated element of every
\* component, in beamline order, none skipped; the wavefront returned is the propagated one.
C11_OneSourceThenTraversalThenPropagation ==
    /\ pc = "traverse" => calls = <<"CalcElecFieldSR">> /\ wavefront.field = "source"
    /\ pc = "returned" =>
          /\ Len(calls) >= 2
          /\ calls[1] = "CalcElecFieldSR"
          /\ calls[2] = "PropagElecField"
          /\ \A i \in 3..Len(calls) : calls[i] = "CalcIntFromElecField"
          /\ idx = Len(beamline)
          /\ srw_beamline.built
          /\ Len(srw_beamline.arOpt) = Len(el_owner)
          /\ Lenses(el_owner) = Identity(Len(beamline))
          /\ \A i \in 1..Len(el_owner) :
                el_owner[i] > 0 =>
                    srw_beamline.arOpt[i] = SRWLOptL(beamline[el_owner[i]].focal_x,
                                                     beamline[el_owner[i]].focal_y)
          /\ propagated_from.field = "source"
          /\ propagated_from.mesh.zStart =
                (IF radiation_source.kind = "Undulator" THEN radiation_source.length ELSE 0)
                + beamline[1].z
          /\ \E r \in ResizeSet : returned = PropagElecField(propagated_from, r)
          /\ returned.field = "propagated"
C11_Witness ==
    /\ pc = "returned"
    /\ nExtract = 0
    /\ calls = <<"CalcElecFieldSR", "PropagElecField">>
    /\ Len(beamline) = 3
    /\ el_owner = <<1, 0, 2, 0, 3>>
    /\ Len(srw_beamline.arOpt) = 5

Harmonics == magFldCnt.arMagFld[1].arHarm
HasTerm(h_or_v) == \E i \in 1..Len(Harmonics) : Harmonics[i].h_or_v = h_or_v

\* C12: the magnetic field of an undulator holds a vertical harmonic exactly when
\* K_vertical > 0 and a horizontal one exactly when K_horizontal > 0 (zero and negative
\* parameters contribute nothing), each at most once, the vertical before the horizontal:
\* 0, 1 or 2 terms.
C12_HarmonicsOfPositiveK ==
    (radiation_source.kind = "Undulator" /\ Len(calls) > 0)
        => /\ Len(magFldCnt.arMagFld) = 1
           /\ HasTerm("v") <=> radiation_source.K_vertical > 0
           /\ HasTerm("h") <=> radiation_source.K_horizontal > 0
           /\ Len(Harmonics) = (IF radiation_source.K_vertical > 0 THEN 1 ELSE 0)
                                + (IF radiation_source.K_horizontal > 0 THEN 1 ELSE 0)
           /\ Len(Harmonics) = 2 =>
                 Harmonics[1].h_or_v = "v" /\ Harmonics[2].h_or_v = "h"
           /\ \A i \in 1..Len(Harmonics) : Harmonics[i].h_or_v \in {"v", "h"}
C12_Witness ==
    /\ radiation_source.kind = "Undulator"
    /\ radiation_source.K_vertical = 1
    /\ radiation_source.K_horizontal = 1
    /\ calls = <<"CalcElecFieldSR">>
    /\ Len(Harmonics) = 2
    /\ Harmonics[1] = SRWLMagFldH("v", 1, 1)
    /\ Harmonics[2] = SRWLMagFldH("h", 1, -1)

Reached == IF raised.at = "component_dispatch" THEN idx + 1 ELSE idx
InTraversal == pc \in {"traverse", "returned"} \/ raised.at = "component_dispatch"
Largest(S) == CHOOSE m \in S : \A x \in S : x <= m
RECURSIVE DriftSum(_)
DriftSum(elements) ==
    IF elements = <<>> THEN 0
    ELSE (IF Head(elements).type = "D" THEN Head(elements).L ELSE 0) + DriftSum(Tail(elements))
C13_Positions ==
    InTraversal =>
        /\ current_z_position >= beamline[1].z
        /\ current_z_position =
              Largest({beamline[1].z} \cup {beamline[i].z : i \in 1..Reached})
        /\ \A i \in Drifts(srw_optical_element) : srw_optical_element[i].L > 0
        /\ DriftSum(srw_optical_element) = current_z_position - beamline[1].z
C13_Step ==
    (pc = "traverse") =>
        /\ current_z_position' >= current_z_position
        /\ (idx < Len(beamline) /\ beamline[idx + 1].z < current_z_position) =>
              /\ current_z_position' = current_z_position
              /\ Cardinality(Drifts(srw_optical_element')) = Cardinality(Drifts(srw_optical_element))

\* C13: during the traversal, for any order of the positions, the current position never
\* decreases and never falls below the first component's position, every inserted drift
\* has a positive length, the drift lengths sum to the largest position reached minus the
\* first position, and a component below the current position gets no drift and does not
\* move the current position back.
C13_CurrentPositionMonotone ==
    /\ []C13_Positions
    /\ [][C13_Step]_vars
C13_Witness ==
    /\ pc = "returned"
    /\ Len(beamline) = 3
    /\ beamline[1].z = 2 /\ beamline[2].z = 1 /\ beamline[3].z = 3
    /\ el_owner = <<1, 2, 0, 3>>
    /\ srw_optical_element[3] = SRWLOptD(1)
    /\ current_z_position = 3

====
